---- MODULE Spec2Model ----
(***************************************************************************)
(* A model of @agent-pro/core: the CircuitBreaker, the retry wrappers      *)
(* (withRetry, AgentRuntime.executeWithRetry), the AgentMetrics counters   *)
(* and AgentRuntime.execute.                                               *)
(*                                                                         *)
(* Time is the integer clock `now` (Date.now()); it starts at 1, so that   *)
(* every timestamp is truthy, as in the program.  An optional number that  *)
(* is undefined is written Undefined (0, falsy like undefined).            *)
(***************************************************************************)
EXTENDS Integers, Sequences, FiniteSets, TLC

\* ------------------------------------------------------------ bounds
MaxThreshold == 2
MaxCbTimeout == 2
MaxFailures == 4
MaxTime == 5
MaxRetries == 2
MaxDelay == 2
MaxFactor == 2
Resolution == 2
MaxTimeout == 2
MaxExec == 1
MaxCalls == 3
MaxRecords == 3
MaxDuration == 2
MaxResets == 1
MaxInits == 2
MaxConcurrent == 2

\* undefined, for lastFailureTime? and nextAttemptTime?
Undefined == 0

VARIABLES
    now,        \* Date.now()
    cbConfig,   \* CircuitBreaker.config
    cb,         \* the CircuitBreaker's fields
    hist,       \* history of the calls made on the breaker (for the properties)
    retryConfig,\* the RetryConfig (of the wrapper under test, or config.retry)
    retry,      \* one call of withRetry / executeWithRetry
    runtimeConfig, \* AgentRuntime.config (but retry and circuitBreaker's numbers),
                   \* and errorListener: an 'error' listener is registered on it
    isInitialized, \* AgentRuntime.isInitialized
    metrics,    \* the AgentMetrics' fields
    started,    \* execute() calls made so far
    ex,         \* the execute() calls in progress or just returned
    observed,   \* what the last getMetrics() / health() call returned
    initCalls,  \* initialize() calls made directly so far
    emitted     \* the lifecycle events emitted: initializing, initialized, error

cbVars == <<cbConfig, cb, hist>>
retryVars == <<retryConfig, retry>>
rtVars == <<runtimeConfig, isInitialized, metrics, started, ex, observed,
           initCalls, emitted>>
vars == <<now, cbConfig, cb, hist, retryConfig, retry,
          runtimeConfig, isInitialized, metrics, started, ex, observed,
          initCalls, emitted>>

\* ------------------------------------------------------------ CircuitBreaker

CircuitStates == {"closed", "open", "half-open"}

\* the fields of a new CircuitBreaker
NewCircuitBreaker ==
    [state |-> "closed", failures |-> 0, successes |-> 0,
     lastFailureTime |-> Undefined, nextAttemptTime |-> Undefined]

setNextAttemptTime(b, cfg, t) ==
    [b EXCEPT !.nextAttemptTime = t + cfg.timeout]

\* a mutant of isOpen: the deadline is not looked at
isOpen_noLazy(b, t) ==
    [b |-> b, ret |-> b.state = "open"]

\* the breaker after isOpen() at time t, and what the call returns
isOpen(b, t) ==
    IF b.state = "closed"
    THEN [b |-> b, ret |-> FALSE]
    ELSE IF b.state = "open" /\ b.nextAttemptTime # Undefined /\ t >= b.nextAttemptTime
         THEN [b |-> [b EXCEPT !.state = "half-open", !.nextAttemptTime = Undefined],
               ret |-> FALSE]
         ELSE [b |-> b, ret |-> b.state = "open"]

\* a mutant of recordSuccess: the failure counter is kept
recordSuccess_keepFailures(b, cfg) ==
    IF b.state = "half-open"
    THEN IF b.successes + 1 >= cfg.successThreshold
         THEN [b EXCEPT !.state = "closed", !.successes = 0]
         ELSE [b EXCEPT !.successes = b.successes + 1]
    ELSE b

\* a mutant of recordSuccess: one success too many is needed to close
recordSuccess_late(b, cfg) ==
    IF b.state = "half-open"
    THEN IF b.successes + 1 > cfg.successThreshold
         THEN [b EXCEPT !.failures = 0, !.state = "closed", !.successes = 0]
         ELSE [b EXCEPT !.failures = 0, !.successes = b.successes + 1]
    ELSE [b EXCEPT !.failures = 0]

\* a mutant of recordSuccess: closing keeps the success counter
recordSuccess_keepSuccesses(b, cfg) ==
    IF b.state = "half-open"
    THEN IF b.successes + 1 >= cfg.successThreshold
         THEN [b EXCEPT !.failures = 0, !.state = "closed",
                        !.successes = b.successes + 1]
         ELSE [b EXCEPT !.failures = 0, !.successes = b.successes + 1]
    ELSE [b EXCEPT !.failures = 0]

recordSuccess(b, cfg) ==
    IF b.state = "half-open"
    THEN IF b.successes + 1 >= cfg.successThreshold
         THEN [b EXCEPT !.failures = 0, !.state = "closed", !.successes = 0]
         ELSE [b EXCEPT !.failures = 0, !.successes = b.successes + 1]
    ELSE [b EXCEPT !.failures = 0]

\* a mutant of recordFailure: the threshold comparison is strict
recordFailure_strict(b, cfg, t) ==
    LET b1 == [b EXCEPT !.failures = b.failures + 1, !.lastFailureTime = t]
    IN  IF b1.state = "half-open"
        THEN [setNextAttemptTime([b1 EXCEPT !.state = "open"], cfg, t)
                EXCEPT !.successes = 0]
        ELSE IF b1.failures > cfg.failureThreshold
             THEN setNextAttemptTime([b1 EXCEPT !.state = "open"], cfg, t)
             ELSE b1

recordFailure(b, cfg, t) ==
    LET b1 == [b EXCEPT !.failures = b.failures + 1, !.lastFailureTime = t]
    IN  IF b1.state = "half-open"
        THEN [setNextAttemptTime([b1 EXCEPT !.state = "open"], cfg, t)
                EXCEPT !.successes = 0]
        ELSE IF b1.failures >= cfg.failureThreshold
             THEN setNextAttemptTime([b1 EXCEPT !.state = "open"], cfg, t)
             ELSE b1

\* a mutant of getState: the lazy transition keeps the deadline
getState_keepDeadline(b, t) ==
    LET b1 == IF b.state = "open" /\ b.nextAttemptTime # Undefined
                 /\ t >= b.nextAttemptTime
              THEN [b EXCEPT !.state = "half-open"]
              ELSE b
    IN  [b |-> b1, ret |-> b1.state]

\* the breaker after getState() at time t, and what the call returns
getState(b, t) ==
    LET b1 == IF b.state = "open" /\ b.nextAttemptTime # Undefined
                 /\ t >= b.nextAttemptTime
              THEN [b EXCEPT !.state = "half-open", !.nextAttemptTime = Undefined]
              ELSE b
    IN  [b |-> b1, ret |-> b1.state]

\* a mutant of reset: the failure counter is kept
reset_keepFailures(b) ==
    [b EXCEPT !.state = "closed", !.successes = 0,
              !.lastFailureTime = Undefined, !.nextAttemptTime = Undefined]

reset(b) ==
    [b EXCEPT !.state = "closed", !.failures = 0, !.successes = 0,
              !.lastFailureTime = Undefined, !.nextAttemptTime = Undefined]

\* a mutant of getStats: reading the statistics clears the failure counter
getStats_clearing(b, t) ==
    LET g == getState(b, t)
    IN  [b |-> [g.b EXCEPT !.failures = 0],
         ret |-> [state |-> g.ret, failures |-> b.failures,
                  successes |-> b.successes, lastFailureTime |-> b.lastFailureTime]]

getStats(b, t) ==
    LET g == getState(b, t)
    IN  [b |-> g.b,
         ret |-> [state |-> g.ret, failures |-> b.failures,
                  successes |-> b.successes, lastFailureTime |-> b.lastFailureTime]]

\* ------------------------------------------------------------ retry wrappers
\* What one attempt of the wrapped operation does when it settles: it returns,
\* or it raises a retryable AgentError (or a plain Error), a non-retryable
\* AgentError, or an AgentTimeoutError of its own.
Outcomes == {"ok", "retryable", "fatal", "agent_timeout"}

\* An error: its code, its retryable flag, and the attempt that raised it
\* (0: not raised by an attempt).
NoError == [code |-> "none", retryable |-> FALSE, id |-> 0]

AgentError(code, retryable, id) == [code |-> code, retryable |-> retryable, id |-> id]

AgentTimeoutError(id) == AgentError("AGENT_TIMEOUT", TRUE, id)

\* the codes of the AgentErrors raised here; an error with another code is
\* not an instance of AgentError
AgentErrorCodes ==
    {"AGENT_TIMEOUT", "AGENT_MODEL_ERROR", "AGENT_TOOL_ERROR", "CIRCUIT_OPEN",
     "INVALID_CONFIG"}

IsAgentError(err) == err.code \in AgentErrorCodes

\* what EventEmitter.emit('error', arg) throws when no 'error' listener is
\* registered and arg is not an Error: a plain Error, code ERR_UNHANDLED_ERROR
UnhandledError == [code |-> "ERR_UNHANDLED_ERROR", retryable |-> FALSE, id |-> 0]

\* the error an attempt raises
ErrorOf(out, id) ==
    CASE out = "retryable" -> AgentError("AGENT_MODEL_ERROR", TRUE, id)
      [] out = "fatal" -> AgentError("AGENT_TOOL_ERROR", FALSE, id)
      [] out = "agent_timeout" -> AgentTimeoutError(id)

RECURSIVE Pow(_, _)
Pow(x, n) == IF n = 0 THEN 1 ELSE x * Pow(x, n - 1)

Min(a, b) == IF a <= b THEN a ELSE b

\* Math.random() is r / Resolution, r in RandomDraws; delays are whole ticks.
RandomDraws == 0..(Resolution - 1)

\* a mutant of calculateDelay: the jitter is added after the clamp
calculateDelay_jitterLast(attempt, config, r) ==
    LET exponentialDelay == config.baseDelay * Pow(config.factor, attempt)
        jitter == (r * exponentialDelay) \div (10 * Resolution)
    IN  Min(exponentialDelay, config.maxDelay) + jitter

calculateDelay(attempt, config, r) ==
    LET exponentialDelay == config.baseDelay * Pow(config.factor, attempt)
        jitter == (r * exponentialDelay) \div (10 * Resolution)
    IN  Min(exponentialDelay + jitter, config.maxDelay)

\* The state of one call of a retry wrapper:
\*   pc       idle | calling (an attempt is in flight) | sleeping | returned | thrown
\*   attempt  the loop variable
\*   calls    invocations of the operation so far
\*   outs     how the settled attempts ended, in order
\*   onRetry  the (attempt, error, delay) the callback was called with, in order
IdleRetry ==
    [fn |-> "none", pc |-> "idle", attempt |-> 0, calls |-> 0, outs |-> <<>>,
     lastError |-> NoError, value |-> 0, wake |-> 0, onRetry |-> <<>>]

\* the call enters the loop and makes its first attempt
retryEnter(fn) ==
    [IdleRetry EXCEPT !.fn = fn, !.pc = "calling", !.calls = 1]

\* the sleep is over: attempt++ and the next attempt is made
retryWake(l) ==
    [l EXCEPT !.pc = "calling", !.attempt = l.attempt + 1, !.calls = l.calls + 1]

\* a mutant of withRetry: the loop runs while attempt < maxRetries
withRetry_settle_short(l, config, out, t, r) ==
    LET l1 == [l EXCEPT !.outs = Append(l.outs, out)]
    IN  IF out = "ok"
        THEN [l1 EXCEPT !.pc = "returned", !.value = l.calls]
        ELSE LET err == ErrorOf(out, l.calls)
                 delay == calculateDelay(l.attempt, config, r)
             IN  IF l.attempt + 1 >= config.maxRetries
                 THEN [l1 EXCEPT !.pc = "thrown", !.lastError = err]
                 ELSE [l1 EXCEPT !.pc = "sleeping", !.lastError = err,
                                 !.wake = t + delay,
                                 !.onRetry = Append(l.onRetry,
                                     [attempt |-> l.attempt + 1, error |-> err,
                                      delay |-> delay])]

\* a mutant of withRetry: the callback is also made after the last attempt
withRetry_settle_callbackLast(l, config, out, t, r) ==
    LET l1 == [l EXCEPT !.outs = Append(l.outs, out)]
    IN  IF out = "ok"
        THEN [l1 EXCEPT !.pc = "returned", !.value = l.calls]
        ELSE LET err == ErrorOf(out, l.calls)
                 delay == calculateDelay(l.attempt, config, r)
                 l2 == [l1 EXCEPT !.lastError = err,
                                  !.onRetry = Append(l.onRetry,
                                      [attempt |-> l.attempt + 1, error |-> err,
                                       delay |-> delay])]
             IN  IF l.attempt = config.maxRetries
                 THEN [l2 EXCEPT !.pc = "thrown"]
                 ELSE [l2 EXCEPT !.pc = "sleeping", !.wake = t + delay]

\* a mutant of withRetry: a success before the last attempt is retried too
withRetry_settle_again(l, config, out, t, r) ==
    LET l1 == [l EXCEPT !.outs = Append(l.outs, out)]
        err == ErrorOf(out, l.calls)
        delay == calculateDelay(l.attempt, config, r)
    IN  IF l.attempt = config.maxRetries
        THEN IF out = "ok"
             THEN [l1 EXCEPT !.pc = "returned", !.value = l.calls]
             ELSE [l1 EXCEPT !.pc = "thrown", !.lastError = err]
        ELSE [l1 EXCEPT !.pc = "sleeping",
                        !.lastError = IF out = "ok" THEN l.lastError ELSE err,
                        !.wake = t + delay,
                        !.onRetry = IF out = "ok" THEN l.onRetry
                                    ELSE Append(l.onRetry,
                                        [attempt |-> l.attempt + 1, error |-> err,
                                         delay |-> delay])]

\* withRetry, from the settling of the attempt in flight to the next await
withRetry_settle(l, config, out, t, r) ==
    LET l1 == [l EXCEPT !.outs = Append(l.outs, out)]
    IN  IF out = "ok"
        THEN [l1 EXCEPT !.pc = "returned", !.value = l.calls]
        ELSE LET err == ErrorOf(out, l.calls)
                 delay == calculateDelay(l.attempt, config, r)
             IN  IF l.attempt = config.maxRetries
                 THEN [l1 EXCEPT !.pc = "thrown", !.lastError = err]
                 ELSE [l1 EXCEPT !.pc = "sleeping", !.lastError = err,
                                 !.wake = t + delay,
                                 !.onRetry = Append(l.onRetry,
                                     [attempt |-> l.attempt + 1, error |-> err,
                                      delay |-> delay])]

\* AgentRuntime.executeWithRetry, from the settling of executeCore to the next
\* await; it has no callback (it emits 'execution:retry' instead)
executeWithRetry_settle(l, config, out, t, r) ==
    LET l1 == [l EXCEPT !.outs = Append(l.outs, out)]
    IN  IF out = "ok"
        THEN [l1 EXCEPT !.pc = "returned", !.value = l.calls]
        ELSE LET err == ErrorOf(out, l.calls)
                 delay == calculateDelay(l.attempt, config, r)
             IN  IF ~err.retryable
                 THEN [l1 EXCEPT !.pc = "thrown", !.lastError = err]
                 ELSE IF l.attempt = config.maxRetries
                 THEN [l1 EXCEPT !.pc = "thrown", !.lastError = err]
                 ELSE [l1 EXCEPT !.pc = "sleeping", !.lastError = err,
                                 !.wake = t + delay]

\* ------------------------------------------------------------ numbers
\* A JavaScript number that is the quotient of two whole numbers: <<n, d>> in
\* lowest terms with d > 0, or <<0, 0>> for NaN (0/0), <<1, 0>> for Infinity.

RECURSIVE GCD(_, _)
GCD(a, b) == IF b = 0 THEN a ELSE GCD(b, a % b)

Number(n) == <<n, 1>>

NaN == <<0, 0>>

\* a / b, for a, b >= 0
Divide(a, b) ==
    IF b = 0
    THEN IF a = 0 THEN NaN ELSE <<1, 0>>
    ELSE <<a \div GCD(a, b), b \div GCD(a, b)>>

\* q * k, for k > 0
Times(q, k) ==
    IF q[2] = 0 THEN q ELSE Divide(q[1] * k, q[2])

\* ------------------------------------------------------------ AgentMetrics

NewAgentMetrics ==
    [executions |-> 0, successes |-> 0, failures |-> 0, timeouts |-> 0,
     totalDuration |-> 0, totalTokens |-> 0, initialized |-> FALSE]

\* a mutant of recordExecution: a timeout is not counted as a failure
recordExecution_timeoutOnly(m, result) ==
    LET m1 == [m EXCEPT !.executions = m.executions + 1,
                        !.totalDuration = m.totalDuration + result.duration,
                        !.totalTokens = m.totalTokens + result.usage.totalTokens]
    IN  CASE result.status = "completed" -> [m1 EXCEPT !.successes = m.successes + 1]
          [] result.status = "timeout" -> [m1 EXCEPT !.timeouts = m.timeouts + 1]
          [] result.status = "failed" -> [m1 EXCEPT !.failures = m.failures + 1]
          [] OTHER -> m1

\* a mutant of recordExecution: only completed results count as executions
recordExecution_completedOnly(m, result) ==
    LET m1 == [m EXCEPT !.totalDuration = m.totalDuration + result.duration,
                        !.totalTokens = m.totalTokens + result.usage.totalTokens]
    IN  CASE result.status = "completed" -> [m1 EXCEPT !.successes = m.successes + 1,
                                                       !.executions = m.executions + 1]
          [] result.status = "timeout" -> [m1 EXCEPT !.timeouts = m.timeouts + 1,
                                                     !.failures = m.failures + 1]
          [] result.status = "failed" -> [m1 EXCEPT !.failures = m.failures + 1]
          [] OTHER -> m1

recordExecution(m, result) ==
    LET m1 == [m EXCEPT !.executions = m.executions + 1,
                        !.totalDuration = m.totalDuration + result.duration,
                        !.totalTokens = m.totalTokens + result.usage.totalTokens]
    IN  CASE result.status = "completed" -> [m1 EXCEPT !.successes = m.successes + 1]
          [] result.status = "timeout" -> [m1 EXCEPT !.timeouts = m.timeouts + 1,
                                                     !.failures = m.failures + 1]
          [] result.status = "failed" -> [m1 EXCEPT !.failures = m.failures + 1]
          [] OTHER -> m1

\* a mutant of getMetrics: the rates are computed without the guards
getMetrics_unguarded(m) ==
    [kind |-> "metrics",
     executions |-> m.executions, successes |-> m.successes,
     failures |-> m.failures, timeouts |-> m.timeouts,
     successRate |-> Times(Divide(m.successes, m.executions), 100),
     averageDuration |-> Divide(m.totalDuration, m.executions),
     totalTokens |-> m.totalTokens]

getMetrics(m) ==
    [kind |-> "metrics",
     executions |-> m.executions, successes |-> m.successes,
     failures |-> m.failures, timeouts |-> m.timeouts,
     successRate |-> IF m.executions > 0
                     THEN Times(Divide(m.successes, m.executions), 100)
                     ELSE Number(0),
     averageDuration |-> IF m.executions > 0
                         THEN Divide(m.totalDuration, m.executions)
                         ELSE Number(0),
     totalTokens |-> m.totalTokens]

isHealthy(m) == m.initialized

\* AgentMetrics.reset()
AgentMetrics_reset(m) ==
    [m EXCEPT !.executions = 0, !.successes = 0, !.failures = 0, !.timeouts = 0,
              !.totalDuration = 0, !.totalTokens = 0]

\* nothing observed yet; resets counts the AgentMetrics.reset() calls made
NoReport == [kind |-> "none", resets |-> 0]

\* ------------------------------------------------------------ AgentRuntime

\* the lengths of the system message and of the task, and executeCore's
\* completion tokens
SystemPromptLen == 31
TaskLen == 5
CompletionTokens == 50

CeilDiv(a, b) == (a + b - 1) \div b

\* estimateTokens(messages) for the transcript [system, user task]
estimateTokens == CeilDiv(SystemPromptLen, 4) + CeilDiv(TaskLen, 4)

ZeroUsage == [promptTokens |-> 0, completionTokens |-> 0, totalTokens |-> 0]

\* the usage of the result executeCore returns
CoreUsage ==
    [promptTokens |-> estimateTokens, completionTokens |-> CompletionTokens,
     totalTokens |-> estimateTokens + CompletionTokens]

\* the transcript execute() builds for its call: the system message, then the
\* user task (each with the length of its content)
Transcript ==
    <<[role |-> "system", len |-> SystemPromptLen],
      [role |-> "user", len |-> TaskLen]>>

\* the result executeCore returns to attempt number n of a call (its output
\* stands for "Processed: <task>" as produced by that attempt)
executeCore(messages, n) ==
    [output |-> n, toolCalls |-> <<>>, messages |-> messages, usage |-> CoreUsage]

\* validateConfig() does not throw
validConfig(c) ==
    /\ ~(c.temperature < 0 \/ c.temperature > 2)
    /\ ~(c.maxTokens < 1 \/ c.maxTokens > 128000)
    /\ ~(c.maxIterations < 1 \/ c.maxIterations > 100)

\* One execute() call.  The ExecutionResult it builds is status, output,
\* usage, duration, error; the rest is the call's position and locals:
\*   call      execute | initialize (the slot holds a direct initialize() call)
\*   pc        idle | init_wait (in initialize(), awaiting metrics.initialize())
\*             | ready (initialize() has resolved) | racing (awaiting
\*             Promise.race) | returned | raised (initialize() threw)
\*             | resolved (the direct initialize() call has resolved)
\*   timer     the timeout timer: none | armed | fired; deadline: when it fires
\*   loop      the executeWithRetry call (it runs on after a timeout)
\* and, for the properties:
\*   reportedOpen  isOpen() answered true at the start
\*   gate      the breaker's stored state and hist.openedAt just before that
\*   returnedAt    Date.now() when the call returned
\*   endedBy   what ended the wait: open (the circuit check threw), loop
\*             (executeWithRetry settled first), timer (the timeout fired first)
\*   recorded, delta   the recordExecution calls made for the result, and how
\*             the one made changed the counters
\*   recordedStatus    the status of the result handed to recordExecution
\*   cbCalls   the recordSuccess / recordFailure calls the call has made, and
\*             failuresBy: by how much they raised the breaker's failure counter
NoCbCalls == [recordSuccess |-> 0, recordFailure |-> 0]

ZeroDelta == [executions |-> 0, successes |-> 0, failures |-> 0, timeouts |-> 0]

IdleExec ==
    [pc |-> "idle", call |-> "none", status |-> "pending", output |-> 0,
     toolCalls |-> <<>>, messages |-> <<>>, chunks |-> <<>>, wake |-> 0,
     usage |-> ZeroUsage, duration |-> 0, error |-> NoError,
     startTime |-> 0, timeout |-> 0, timer |-> "none", deadline |-> 0,
     loop |-> IdleRetry,
     reportedOpen |-> FALSE, gate |-> [state |-> "none", openedAt |-> Undefined],
     returnedAt |-> 0, recorded |-> 0, delta |-> ZeroDelta,
     recordedStatus |-> "none", endedBy |-> "none",
     cbCalls |-> NoCbCalls, failuresBy |-> 0]

Delta(m, m2) ==
    [executions |-> m2.executions - m.executions,
     successes |-> m2.successes - m.successes,
     failures |-> m2.failures - m.failures,
     timeouts |-> m2.timeouts - m.timeouts]

\* the time of the last transition into open, after a call that took the
\* breaker from b to b2 at time t
OpenedAt(h, b, b2, t) ==
    IF b.state # "open" /\ b2.state = "open" THEN t ELSE h.openedAt

\* a mutant of execute's finally block: the duration is not stamped
execute_finally_noDuration(x, b, m, h, t) ==
    LET x1 == [x EXCEPT !.messages = Transcript,
                        !.pc = "returned", !.returnedAt = t]
        m2 == IF runtimeConfig.metricsEnabled THEN recordExecution(m, x1) ELSE m
    IN  [x |-> [x1 EXCEPT !.recorded = IF runtimeConfig.metricsEnabled THEN x.recorded + 1
                                         ELSE x.recorded,
                          !.recordedStatus = IF runtimeConfig.metricsEnabled THEN x1.status
                                             ELSE x.recordedStatus,
                          !.delta = Delta(m, m2)],
         cb |-> b, metrics |-> m2, hist |-> h]

\* a mutant of execute's finally block: a timeout is not recorded
execute_finally_skipTimeout(x, b, m, h, t) ==
    LET x1 == [x EXCEPT !.duration = t - x.startTime,
                        !.messages = Transcript,
                        !.pc = "returned", !.returnedAt = t]
        rec == runtimeConfig.metricsEnabled /\ x.status # "timeout"
        m2 == IF rec THEN recordExecution(m, x1) ELSE m
    IN  [x |-> [x1 EXCEPT !.recorded = IF rec THEN x.recorded + 1 ELSE x.recorded,
                          !.recordedStatus = IF rec THEN x1.status ELSE x.recordedStatus,
                          !.delta = Delta(m, m2)],
         cb |-> b, metrics |-> m2, hist |-> h]

\* execute's finally block and return, at time t
execute_finally(x, b, m, h, t) ==
    LET x1 == [x EXCEPT !.duration = t - x.startTime,
                        !.messages = Transcript,
                        !.pc = "returned", !.returnedAt = t]
        m2 == IF runtimeConfig.metricsEnabled THEN recordExecution(m, x1) ELSE m
    IN  [x |-> [x1 EXCEPT !.recorded = IF runtimeConfig.metricsEnabled THEN x.recorded + 1
                                         ELSE x.recorded,
                          !.recordedStatus = IF runtimeConfig.metricsEnabled THEN x1.status
                                             ELSE x.recordedStatus,
                          !.delta = Delta(m, m2)],
         cb |-> b, metrics |-> m2, hist |-> h]

\* a mutant of execute's catch block: every error gives status failed
execute_catch_failedOnly(x, error, b, m, h, t) ==
    LET b2 == IF runtimeConfig.cbEnabled THEN recordFailure(b, cbConfig, t) ELSE b
        x1 == [x EXCEPT !.status = "failed", !.error = error,
                        !.cbCalls.recordFailure =
                            IF runtimeConfig.cbEnabled THEN @ + 1 ELSE @,
                        !.failuresBy = @ + b2.failures - b.failures]
        h2 == [h EXCEPT !.openedAt = OpenedAt(h, b, b2, t)]
    IN  execute_finally(x1, b2, m, h2, t)

\* execute's catch block (and what follows it), for the error caught at time t
execute_catch(x, error, b, m, h, t) ==
    LET b2 == IF runtimeConfig.cbEnabled THEN recordFailure(b, cbConfig, t) ELSE b
        x1 == [x EXCEPT !.status = IF error.code = "AGENT_TIMEOUT" THEN "timeout"
                                   ELSE "failed",
                        !.error = error,
                        !.cbCalls.recordFailure =
                            IF runtimeConfig.cbEnabled THEN @ + 1 ELSE @,
                        !.failuresBy = @ + b2.failures - b.failures]
        h2 == [h EXCEPT !.openedAt = OpenedAt(h, b, b2, t)]
    IN  execute_finally(x1, b2, m, h2, t)

\* a mutant of execute: a completed call is not reported to the breaker
execute_resolved_noRecord(x, b, m, h, t) ==
    LET executionResult == executeCore(Transcript, x.loop.value)
        x1 == [x EXCEPT !.output = executionResult.output,
                        !.toolCalls = executionResult.toolCalls,
                        !.messages = executionResult.messages,
                        !.usage = executionResult.usage,
                        !.status = "completed"]
    IN  execute_finally(x1, b, m, h, t)

\* a mutant of execute: the usage is added up over the attempts made
execute_resolved_sumUsage(x, b, m, h, t) ==
    LET b2 == IF runtimeConfig.cbEnabled THEN recordSuccess(b, cbConfig) ELSE b
        executionResult == executeCore(Transcript, x.loop.value)
        u == executionResult.usage
        x1 == [x EXCEPT !.output = executionResult.output,
                        !.toolCalls = executionResult.toolCalls,
                        !.messages = executionResult.messages,
                        !.usage = [promptTokens |-> x.loop.calls * u.promptTokens,
                                   completionTokens |-> x.loop.calls * u.completionTokens,
                                   totalTokens |-> x.loop.calls * u.totalTokens],
                        !.status = "completed",
                        !.cbCalls.recordSuccess =
                            IF runtimeConfig.cbEnabled THEN @ + 1 ELSE @,
                        !.failuresBy = @ + b2.failures - b.failures]
    IN  execute_finally(x1, b2, m, h, t)

\* execute after Promise.race resolved with executeWithRetry's result
execute_resolved(x, b, m, h, t) ==
    LET b2 == IF runtimeConfig.cbEnabled THEN recordSuccess(b, cbConfig) ELSE b
        executionResult == executeCore(Transcript, x.loop.value)
        x1 == [x EXCEPT !.output = executionResult.output,
                        !.toolCalls = executionResult.toolCalls,
                        !.messages = executionResult.messages,
                        !.usage = executionResult.usage,
                        !.status = "completed",
                        !.cbCalls.recordSuccess =
                            IF runtimeConfig.cbEnabled THEN @ + 1 ELSE @,
                        !.failuresBy = @ + b2.failures - b.failures]
    IN  execute_finally(x1, b2, m, h, t)

\* a mutant of execute: the breaker is not consulted
execute_begin_noGate(x, override, b, m, h, t) ==
    LET timeout == IF override # Undefined THEN override ELSE runtimeConfig.timeout
        io == IF runtimeConfig.cbEnabled THEN isOpen(b, t) ELSE [b |-> b, ret |-> FALSE]
        x1 == [x EXCEPT !.startTime = t, !.timeout = timeout,
                        !.output = 0, !.toolCalls = <<>>,
                        !.messages = Transcript, !.usage = ZeroUsage,
                        !.reportedOpen = io.ret,
                        !.endedBy = IF io.ret THEN "open" ELSE "none",
                        !.gate = [state |-> IF runtimeConfig.cbEnabled THEN b.state ELSE "none",
                                  openedAt |-> h.openedAt]]
    IN  [x |-> [x1 EXCEPT !.pc = "racing", !.status = "running",
                          !.loop = retryEnter("executeWithRetry"),
                          !.timer = "armed", !.deadline = t + timeout],
         cb |-> io.b, metrics |-> m, hist |-> h]

\* execute, from the resumption after `await this.initialize()` to its return
\* (the circuit is open) or to `await Promise.race`; override is the call's
\* own config.timeout
execute_begin(x, override, b, m, h, t) ==
    LET timeout == IF override # Undefined THEN override ELSE runtimeConfig.timeout
        io == IF runtimeConfig.cbEnabled THEN isOpen(b, t) ELSE [b |-> b, ret |-> FALSE]
        x1 == [x EXCEPT !.startTime = t, !.timeout = timeout,
                        !.output = 0, !.toolCalls = <<>>,
                        !.messages = Transcript, !.usage = ZeroUsage,
                        !.reportedOpen = io.ret,
                        !.endedBy = IF io.ret THEN "open" ELSE "none",
                        !.gate = [state |-> IF runtimeConfig.cbEnabled THEN b.state ELSE "none",
                                  openedAt |-> h.openedAt]]
    IN  IF io.ret
        THEN execute_catch(x1, AgentError("CIRCUIT_OPEN", FALSE, 0), io.b, m, h, t)
        ELSE [x |-> [x1 EXCEPT !.pc = "racing", !.status = "running",
                               !.loop = retryEnter("executeWithRetry"),
                               !.timer = "armed", !.deadline = t + timeout],
              cb |-> io.b, metrics |-> m, hist |-> h]

\* the content chunks of the simulated stream
StreamContents == <<"Processing", " your", " request", "...">>

ContentChunk(content) == [type |-> "content", content |-> content]

DoneChunk ==
    [type |-> "done",
     usage |-> [promptTokens |-> 10, completionTokens |-> 4, totalTokens |-> 14]]

\* stream(), from the resumption after `await this.initialize()` to its first
\* yield; chunks are the chunks handed to the consumer so far
stream_begin(x) ==
    [x EXCEPT !.pc = "yielded", !.chunks = <<ContentChunk(StreamContents[1])>>]

\* stream(), resumed by the consumer's next() at time t: after a content
\* chunk it sleeps (one tick of the clock for the 100 ms), after the done
\* chunk it emits 'stream:complete' and the generator returns
stream_next(x, t) ==
    IF x.chunks[Len(x.chunks)].type = "content"
    THEN [x EXCEPT !.pc = "sleeping", !.wake = t + 1]
    ELSE [x EXCEPT !.pc = "returned", !.returnedAt = t]

\* stream(), when its sleep is over: the next content chunk is yielded, or
\* the done chunk after the last one
stream_wake(x) ==
    IF Len(x.chunks) < Len(StreamContents)
    THEN [x EXCEPT !.pc = "yielded",
                   !.chunks = Append(x.chunks,
                                     ContentChunk(StreamContents[Len(x.chunks) + 1]))]
    ELSE [x EXCEPT !.pc = "yielded", !.chunks = Append(x.chunks, DoneChunk)]

\* the overall status health() derives from its checks ("absent": the check is
\* not made)
overallStatus(checks) ==
    LET made == {checks[k] : k \in DOMAIN checks} \ {"absent"}
        allPass == \A c \in made : c = "pass"
        anyFail == \E c \in made : c = "fail"
    IN  IF allPass THEN "healthy" ELSE IF anyFail THEN "unhealthy" ELSE "degraded"

\* a mutant of health: a half-open breaker fails its check
health_halfOpenFails(init, b, m, t) ==
    LET gs == IF runtimeConfig.cbEnabled THEN getState(b, t)
              ELSE [b |-> b, ret |-> "none"]
        checks == [initialized |-> IF init THEN "pass" ELSE "fail",
                   circuitBreaker |-> IF ~runtimeConfig.cbEnabled THEN "absent"
                                      ELSE IF gs.ret = "closed" THEN "pass"
                                      ELSE "fail",
                   metrics |-> IF ~runtimeConfig.metricsEnabled THEN "absent"
                               ELSE IF isHealthy(m) THEN "pass" ELSE "warn"]
    IN  [b |-> gs.b,
         ret |-> [kind |-> "health", status |-> overallStatus(checks),
                  checks |-> checks, state |-> gs.ret]]

\* health() at time t: the breaker after it (getState() may move it to
\* half-open) and the HealthStatus returned; state is what getState() answered
health(init, b, m, t) ==
    LET gs == IF runtimeConfig.cbEnabled THEN getState(b, t)
              ELSE [b |-> b, ret |-> "none"]
        checks == [initialized |-> IF init THEN "pass" ELSE "fail",
                   circuitBreaker |-> IF ~runtimeConfig.cbEnabled THEN "absent"
                                      ELSE IF gs.ret = "closed" THEN "pass"
                                      ELSE IF gs.ret = "open" THEN "fail"
                                      ELSE "warn",
                   metrics |-> IF ~runtimeConfig.metricsEnabled THEN "absent"
                               ELSE IF isHealthy(m) THEN "pass" ELSE "warn"]
    IN  [b |-> gs.b,
         ret |-> [kind |-> "health", status |-> overallStatus(checks),
                  checks |-> checks, state |-> gs.ret]]

\* a mutant of initialize: the isInitialized guard is missing
initialize_enter_unguarded(init, m, em) ==
    IF ~validConfig(runtimeConfig)
    THEN [isInitialized |-> init, metrics |-> m,
          emitted |-> em \o <<"initializing", "error">>, to |-> "raised",
          error |-> IF runtimeConfig.errorListener
                    THEN AgentError("INVALID_CONFIG", FALSE, 0) ELSE UnhandledError]
    ELSE IF runtimeConfig.metricsEnabled
    THEN [isInitialized |-> init, metrics |-> [m EXCEPT !.initialized = TRUE],
          emitted |-> Append(em, "initializing"), to |-> "init_wait", error |-> NoError]
    ELSE [isInitialized |-> TRUE, metrics |-> m,
          emitted |-> em \o <<"initializing", "initialized">>, to |-> "resolved",
          error |-> NoError]

\* initialize(), from its call to its first await (to: init_wait), to its
\* return (resolved) or to its throw (raised, with the error the caller gets)
initialize_enter(init, m, em) ==
    IF init
    THEN [isInitialized |-> init, metrics |-> m, emitted |-> em, to |-> "resolved",
          error |-> NoError]
    ELSE IF ~validConfig(runtimeConfig)
    THEN [isInitialized |-> init, metrics |-> m,
          emitted |-> em \o <<"initializing", "error">>, to |-> "raised",
          error |-> IF runtimeConfig.errorListener
                    THEN AgentError("INVALID_CONFIG", FALSE, 0) ELSE UnhandledError]
    ELSE IF runtimeConfig.metricsEnabled
    THEN [isInitialized |-> init, metrics |-> [m EXCEPT !.initialized = TRUE],
          emitted |-> Append(em, "initializing"), to |-> "init_wait", error |-> NoError]
    ELSE [isInitialized |-> TRUE, metrics |-> m,
          emitted |-> em \o <<"initializing", "initialized">>, to |-> "resolved",
          error |-> NoError]

\* ------------------------------------------------------------ call history
\* What the properties need to know of the calls made so far on the breaker:
\*   op, pre, preHo  the last call, the breaker's state before it, and hoSucc
\*                   before it
\*   run       recordFailure() calls made in a row since the breaker was last
\*             closed with failure counter 0 (-1: something else intervened)
\*   hoSucc    recordSuccess() calls made in a row since the breaker became
\*             half-open (-1: not in such a run)
\*   c4        recordFailure() calls made in a row since a recordSuccess() that
\*             followed failureThreshold-1 failures of a run (-1: otherwise)
\*   openedAt  the time of the last transition into open (Undefined: none)
NoHist ==
    [op |-> "new", pre |-> "closed", preHo |-> -1,
     run |-> 0, hoSucc |-> -1, c4 |-> -1, openedAt |-> Undefined]

HistAfter(h, op, b, b2, cfg, t) ==
    [op |-> op, pre |-> b.state, preHo |-> h.hoSucc,
     run |-> CASE op = "recordFailure" -> IF h.run >= 0 THEN h.run + 1 ELSE -1
               [] op = "recordSuccess" -> IF b2.state = "closed" THEN 0 ELSE -1
               [] op = "reset" -> 0
               [] OTHER -> IF b2.state = b.state THEN h.run ELSE -1,
     hoSucc |-> CASE op = "recordSuccess" ->
                       IF h.hoSucc >= 0 /\ h.hoSucc < cfg.successThreshold
                       THEN h.hoSucc + 1 ELSE -1
                  [] op \in {"recordFailure", "reset"} -> -1
                  [] OTHER -> IF b.state = "open" /\ b2.state = "half-open"
                              THEN 0 ELSE h.hoSucc,
     c4 |-> CASE op = "recordSuccess" ->
                   IF h.run = cfg.failureThreshold - 1 /\ b.state = "closed"
                   THEN 0 ELSE -1
              [] op = "recordFailure" -> IF h.c4 >= 0 THEN h.c4 + 1 ELSE -1
              [] op = "reset" -> -1
              [] OTHER -> h.c4,
     openedAt |-> CASE op = "reset" -> Undefined
                    [] b.state # "open" /\ b2.state = "open" -> t
                    [] OTHER -> h.openedAt]

\* the RetryConfig where no retry wrapper is exercised
DefaultRetryConfig ==
    [maxRetries |-> 1, baseDelay |-> 1, maxDelay |-> 2, factor |-> 2]

\* the CircuitBreakerConfig where no breaker is exercised
DefaultCbConfig ==
    [failureThreshold |-> 2, successThreshold |-> 2, timeout |-> 2]

\* the slots for execute() calls in progress
Execs == 1..MaxExec

\* DEFAULT_CONFIG with a whole-number temperature, its maxTokens and
\* maxIterations, breaker and metrics enabled, timeout in ticks
DefaultRuntimeConfig ==
    [temperature |-> 1, maxTokens |-> 4096, maxIterations |-> 10,
     timeout |-> MaxTimeout, cbEnabled |-> TRUE, metricsEnabled |-> TRUE,
     errorListener |-> FALSE]

\* a runtime on which nothing has been called
IdleRuntime ==
    /\ isInitialized = FALSE
    /\ metrics = NewAgentMetrics
    /\ started = 0
    /\ ex = [e \in Execs |-> IdleExec]
    /\ observed = NoReport
    /\ initCalls = 0
    /\ emitted = <<>>

\* ------------------------------------------------------------ the breaker alone
\* A CircuitBreaker driven directly through its public methods.

InitCB ==
    /\ now = 1
    /\ cbConfig \in [failureThreshold : 1..MaxThreshold,
                     successThreshold : 1..MaxThreshold,
                     timeout : 1..MaxCbTimeout]
    /\ cb = NewCircuitBreaker
    /\ hist = NoHist
    /\ retryConfig = DefaultRetryConfig
    /\ retry = IdleRetry
    /\ runtimeConfig = DefaultRuntimeConfig
    /\ IdleRuntime

\* a call that is over, with no timer or attempt of its own still to come
Finished(x) ==
    /\ x.pc \in {"returned", "raised", "resolved"}
    /\ x.timer # "armed"
    /\ x.loop.pc \notin {"calling", "sleeping"}

\* a timer (a sleep) whose time has come fires before the clock moves on, and
\* the record of a finished call is dropped before it does
TimerDue ==
    \/ retry.pc = "sleeping" /\ now >= retry.wake
    \/ \E e \in DOMAIN ex :
          \/ ex[e].timer = "armed" /\ now >= ex[e].deadline
          \/ ex[e].loop.pc = "sleeping" /\ now >= ex[e].loop.wake
          \/ ex[e].pc = "sleeping" /\ now >= ex[e].wake
          \/ Finished(ex[e])

Tick ==
    /\ now < MaxTime
    /\ ~TimerDue
    /\ now' = now + 1
    /\ UNCHANGED <<cbVars, retryVars, rtVars>>

CB_isOpen ==
    /\ cb' = isOpen(cb, now).b
    /\ hist' = HistAfter(hist, "isOpen", cb, cb', cbConfig, now)
    /\ UNCHANGED <<now, cbConfig, retryVars, rtVars>>

CB_getState ==
    /\ cb' = getState(cb, now).b
    /\ hist' = HistAfter(hist, "getState", cb, cb', cbConfig, now)
    /\ UNCHANGED <<now, cbConfig, retryVars, rtVars>>

CB_getStats ==
    /\ cb' = getStats(cb, now).b
    /\ hist' = HistAfter(hist, "getStats", cb, cb', cbConfig, now)
    /\ UNCHANGED <<now, cbConfig, retryVars, rtVars>>

CB_recordSuccess ==
    /\ cb' = recordSuccess(cb, cbConfig)
    /\ hist' = HistAfter(hist, "recordSuccess", cb, cb', cbConfig, now)
    /\ UNCHANGED <<now, cbConfig, retryVars, rtVars>>

CB_recordFailure ==
    /\ cb.failures < MaxFailures
    /\ cb' = recordFailure(cb, cbConfig, now)
    /\ hist' = HistAfter(hist, "recordFailure", cb, cb', cbConfig, now)
    /\ UNCHANGED <<now, cbConfig, retryVars, rtVars>>

CB_reset ==
    /\ cb' = reset(cb)
    /\ hist' = HistAfter(hist, "reset", cb, cb', cbConfig, now)
    /\ UNCHANGED <<now, cbConfig, retryVars, rtVars>>

NextCB ==
    \/ Tick
    \/ CB_isOpen
    \/ CB_getState
    \/ CB_getStats
    \/ CB_recordSuccess
    \/ CB_recordFailure
    \/ CB_reset

SpecCB == InitCB /\ [][NextCB]_vars

\* ------------------------------------------------------------ the retry wrappers alone
\* One call of withRetry(fn, config, onRetry) or of executeWithRetry, with an
\* operation whose every attempt may succeed, fail retryably or fail fatally.

InitRetry ==
    /\ now = 1
    /\ cbConfig = DefaultCbConfig
    /\ cb = NewCircuitBreaker
    /\ hist = NoHist
    /\ retryConfig \in [maxRetries : 0..MaxRetries, baseDelay : 1..MaxDelay,
                        maxDelay : 1..MaxDelay, factor : 1..MaxFactor]
    /\ retry = IdleRetry
    /\ runtimeConfig = DefaultRuntimeConfig
    /\ IdleRuntime

WR_call ==
    /\ retry.pc = "idle"
    /\ retry' = retryEnter("withRetry")
    /\ UNCHANGED <<now, cbVars, retryConfig, rtVars>>

WR_settle ==
    /\ retry.fn = "withRetry" /\ retry.pc = "calling"
    /\ \E out \in Outcomes, r \in RandomDraws :
          retry' = withRetry_settle(retry, retryConfig, out, now, r)
    /\ UNCHANGED <<now, cbVars, retryConfig, rtVars>>

WR_wake ==
    /\ retry.fn = "withRetry" /\ retry.pc = "sleeping" /\ now >= retry.wake
    /\ retry' = retryWake(retry)
    /\ UNCHANGED <<now, cbVars, retryConfig, rtVars>>

EWR_call ==
    /\ retry.pc = "idle"
    /\ retry' = retryEnter("executeWithRetry")
    /\ UNCHANGED <<now, cbVars, retryConfig, rtVars>>

EWR_settle ==
    /\ retry.fn = "executeWithRetry" /\ retry.pc = "calling"
    /\ \E out \in Outcomes, r \in RandomDraws :
          retry' = executeWithRetry_settle(retry, retryConfig, out, now, r)
    /\ UNCHANGED <<now, cbVars, retryConfig, rtVars>>

EWR_wake ==
    /\ retry.fn = "executeWithRetry" /\ retry.pc = "sleeping" /\ now >= retry.wake
    /\ retry' = retryWake(retry)
    /\ UNCHANGED <<now, cbVars, retryConfig, rtVars>>

NextRetry ==
    \/ Tick
    \/ WR_call
    \/ WR_settle
    \/ WR_wake
    \/ EWR_call
    \/ EWR_settle
    \/ EWR_wake

SpecRetry == InitRetry /\ [][NextRetry]_vars

\* ------------------------------------------------------------ the metrics alone
\* An AgentMetrics driven directly through recordExecution, reset and getMetrics.

InitMetrics ==
    /\ now = 1
    /\ cbConfig = DefaultCbConfig
    /\ cb = NewCircuitBreaker
    /\ hist = NoHist
    /\ retryConfig = DefaultRetryConfig
    /\ retry = IdleRetry
    /\ runtimeConfig = DefaultRuntimeConfig
    /\ IdleRuntime

M_recordExecution ==
    /\ metrics.executions < MaxRecords
    /\ \E status \in {"completed", "failed", "timeout"}, duration \in 0..MaxDuration :
          metrics' = recordExecution(metrics,
                        [status |-> status, duration |-> duration,
                         usage |-> IF status = "completed" THEN CoreUsage ELSE ZeroUsage])
    /\ UNCHANGED <<now, cbVars, retryVars, runtimeConfig, isInitialized, started, ex, observed, initCalls, emitted>>

M_reset ==
    /\ observed.resets < MaxResets
    /\ metrics' = AgentMetrics_reset(metrics)
    /\ observed' = [observed EXCEPT !.resets = @ + 1]
    /\ UNCHANGED <<now, cbVars, retryVars, runtimeConfig, isInitialized, started, ex, initCalls, emitted>>

\* getMetrics(): `of` keeps the fields it was computed from
M_getMetrics ==
    /\ observed' = getMetrics(metrics) @@ [of |-> metrics, resets |-> observed.resets]
    /\ UNCHANGED <<now, cbVars, retryVars, runtimeConfig, isInitialized, metrics, started, ex, initCalls, emitted>>

NextMetrics ==
    \/ M_recordExecution
    \/ M_reset
    \/ M_getMetrics

SpecMetrics == InitMetrics /\ [][NextMetrics]_vars

\* ------------------------------------------------------------ the backoff delays
\* withRetry with delays of the size the tests use (hundreds of milliseconds),
\* where the jitter is not rounded away; the clock jumps over each sleep.

\* the unit of baseDelay and maxDelay here
DelayScale == 100

InitDelay ==
    /\ now = 1
    /\ cbConfig = DefaultCbConfig
    /\ cb = NewCircuitBreaker
    /\ hist = NoHist
    /\ retryConfig \in [maxRetries : 1..(MaxRetries + 1),
                        baseDelay : {DelayScale * k : k \in 1..(MaxDelay + 1)},
                        maxDelay : {DelayScale * k : k \in 1..MaxDelay},
                        factor : 1..MaxFactor]
    /\ retry = IdleRetry
    /\ runtimeConfig = DefaultRuntimeConfig
    /\ IdleRuntime

\* the time of the sleep passes
Sleep_elapse ==
    /\ retry.pc = "sleeping" /\ now < retry.wake
    /\ now' = retry.wake
    /\ UNCHANGED <<cbVars, retryVars, rtVars>>

NextDelay ==
    \/ WR_call
    \/ WR_settle
    \/ Sleep_elapse
    \/ WR_wake

SpecDelay == InitDelay /\ [][NextDelay]_vars

\* ------------------------------------------------------------ the runtime
\* An AgentRuntime on which execute() is called, up to MaxExec calls at a time;
\* every attempt of the backend (executeCore) may return, raise or never settle.

\* temperature, maxTokens, maxIterations: DEFAULT_CONFIG's, and one out of range each
ConfigSamples ==
    {<<1, 4096, 10>>, <<3, 4096, 10>>, <<1, 0, 10>>, <<1, 4096, 101>>}

Init ==
    /\ now = 1
    /\ runtimeConfig \in
          {[temperature |-> c[1], maxTokens |-> c[2], maxIterations |-> c[3],
            timeout |-> MaxTimeout, cbEnabled |-> ce, metricsEnabled |-> me,
            errorListener |-> el] :
             c \in ConfigSamples, ce \in BOOLEAN, me \in BOOLEAN, el \in BOOLEAN}
    /\ (validConfig(runtimeConfig) => ~runtimeConfig.errorListener)
    /\ cbConfig \in [failureThreshold : 1..MaxThreshold,
                     successThreshold : 1..MaxThreshold,
                     timeout : {MaxCbTimeout}]
    /\ (~runtimeConfig.cbEnabled => cbConfig = DefaultCbConfig)
    /\ cb = NewCircuitBreaker
    /\ hist = NoHist
    /\ retryConfig \in [maxRetries : 0..MaxRetries, baseDelay : {1},
                        maxDelay : {1}, factor : {1}]
    /\ retry = IdleRetry
    /\ IdleRuntime

\* execute() is called and runs to the first await inside initialize()
Execute_call(e) ==
    /\ ex[e].pc = "idle"
    /\ \A d \in DOMAIN ex : d < e => ex[d].pc # "idle"
    /\ started + initCalls < MaxCalls
    /\ started' = started + 1
    /\ LET r == initialize_enter(isInitialized, metrics, emitted)
       IN  /\ isInitialized' = r.isInitialized
           /\ metrics' = r.metrics
           /\ emitted' = r.emitted
           /\ ex' = [ex EXCEPT ![e].call = "execute",
                               ![e].pc = IF r.to = "resolved" THEN "ready" ELSE r.to,
                               ![e].error = r.error]
    /\ UNCHANGED <<now, cbVars, retryVars, runtimeConfig, observed, initCalls>>

\* initialize() is called directly and runs to its first await, or to its end
Initialize_call(e) ==
    /\ ex[e].pc = "idle"
    /\ \A d \in DOMAIN ex : d < e => ex[d].pc # "idle"
    /\ started + initCalls < MaxCalls /\ initCalls < MaxInits
    /\ initCalls' = initCalls + 1
    /\ LET r == initialize_enter(isInitialized, metrics, emitted)
       IN  /\ isInitialized' = r.isInitialized
           /\ metrics' = r.metrics
           /\ emitted' = r.emitted
           /\ ex' = [ex EXCEPT ![e].call = "initialize", ![e].pc = r.to,
                               ![e].error = r.error]
    /\ UNCHANGED <<now, cbVars, retryVars, runtimeConfig, observed, started>>

\* initialize() resumes after `await this.metrics.initialize()`
Initialize_resume(e) ==
    /\ ex[e].pc = "init_wait"
    /\ isInitialized' = TRUE
    /\ emitted' = Append(emitted, "initialized")
    /\ ex' = [ex EXCEPT ![e].pc = IF ex[e].call = "initialize" THEN "resolved"
                                  ELSE "ready"]
    /\ UNCHANGED <<now, cbVars, retryVars, runtimeConfig, metrics, started, observed, initCalls>>

\* execute() resumes after `await this.initialize()`
Execute_begin(e) ==
    /\ ex[e].pc = "ready" /\ ex[e].call = "execute"
    /\ \E override \in 0..(MaxTimeout - 1) :
          LET r == execute_begin(ex[e], override, cb, metrics, hist, now)
          IN  /\ now + r.x.timeout <= MaxTime
              /\ cb.failures < MaxFailures
              /\ ex' = [ex EXCEPT ![e] = r.x]
              /\ cb' = r.cb
              /\ metrics' = r.metrics
              /\ hist' = r.hist
    /\ UNCHANGED <<now, cbConfig, retryVars, runtimeConfig, isInitialized, started, observed, initCalls, emitted>>

\* a mutant of Backend_settle: execute() goes on with executeWithRetry's
\* outcome also after the timeout has won
Backend_settle_late(e) ==
    /\ ex[e].loop.pc = "calling"
    /\ \E out \in Outcomes, rnd \in RandomDraws :
          LET l == executeWithRetry_settle(ex[e].loop, retryConfig, out, now, rnd)
              x == [ex[e] EXCEPT !.loop = l,
                                 !.endedBy = IF ex[e].pc = "racing" /\ l.pc \in {"returned", "thrown"}
                                             THEN "loop" ELSE @]
              r == IF l.pc = "returned"
                      THEN execute_resolved(x, cb, metrics, hist, now)
                   ELSE IF l.pc = "thrown"
                      THEN execute_catch(x, l.lastError, cb, metrics, hist, now)
                   ELSE [x |-> x, cb |-> cb, metrics |-> metrics, hist |-> hist]
          IN  /\ ex' = [ex EXCEPT ![e] = r.x]
              /\ cb' = r.cb
              /\ metrics' = r.metrics
              /\ hist' = r.hist
    /\ UNCHANGED <<now, cbConfig, retryVars, runtimeConfig, isInitialized, started, observed, initCalls, emitted>>

\* the backend attempt in flight settles; executeWithRetry goes on to its next
\* await, or ends, and then Promise.race settles unless the timeout has won
Backend_settle(e) ==
    /\ ex[e].loop.pc = "calling"
    /\ \E out \in Outcomes, rnd \in RandomDraws :
          LET l == executeWithRetry_settle(ex[e].loop, retryConfig, out, now, rnd)
              x == [ex[e] EXCEPT !.loop = l,
                                 !.endedBy = IF ex[e].pc = "racing" /\ l.pc \in {"returned", "thrown"}
                                             THEN "loop" ELSE @]
              r == IF x.pc = "racing" /\ l.pc = "returned"
                      THEN execute_resolved(x, cb, metrics, hist, now)
                   ELSE IF x.pc = "racing" /\ l.pc = "thrown"
                      THEN execute_catch(x, l.lastError, cb, metrics, hist, now)
                   ELSE [x |-> x, cb |-> cb, metrics |-> metrics, hist |-> hist]
          IN  /\ ex' = [ex EXCEPT ![e] = r.x]
              /\ cb' = r.cb
              /\ metrics' = r.metrics
              /\ hist' = r.hist
    /\ UNCHANGED <<now, cbConfig, retryVars, runtimeConfig, isInitialized, started, observed, initCalls, emitted>>

\* the backend attempt in flight is one that never settles
Backend_hang(e) ==
    /\ ex[e].loop.pc = "calling"
    /\ ex' = [ex EXCEPT ![e].loop.pc = "hung"]
    /\ UNCHANGED <<now, cbVars, retryVars, runtimeConfig, isInitialized, metrics, started, observed, initCalls, emitted>>

\* executeWithRetry's sleep is over: the next attempt is made
Retry_wake(e) ==
    /\ ex[e].loop.pc = "sleeping" /\ now >= ex[e].loop.wake
    /\ ex' = [ex EXCEPT ![e].loop = retryWake(ex[e].loop)]
    /\ UNCHANGED <<now, cbVars, retryVars, runtimeConfig, isInitialized, metrics, started, observed, initCalls, emitted>>

\* a mutant of Timer_fire: the rejection reaches execute()'s catch block also
\* after Promise.race has settled
Timer_fire_always(e) ==
    /\ ex[e].timer = "armed" /\ now >= ex[e].deadline
    /\ LET x == [ex[e] EXCEPT !.timer = "fired",
                              !.endedBy = IF ex[e].pc = "racing" THEN "timer" ELSE @]
           r == execute_catch(x, AgentTimeoutError(0), cb, metrics, hist, now)
       IN  /\ ex' = [ex EXCEPT ![e] = r.x]
           /\ cb' = r.cb
           /\ metrics' = r.metrics
           /\ hist' = r.hist
    /\ UNCHANGED <<now, cbConfig, retryVars, runtimeConfig, isInitialized, started, observed, initCalls, emitted>>

\* the timeout timer fires: it rejects timeoutPromise, which settles
\* Promise.race unless executeWithRetry has
Timer_fire(e) ==
    /\ ex[e].timer = "armed" /\ now >= ex[e].deadline
    /\ LET x == [ex[e] EXCEPT !.timer = "fired",
                              !.endedBy = IF ex[e].pc = "racing" THEN "timer" ELSE @]
           r == IF x.pc = "racing"
                THEN execute_catch(x, AgentTimeoutError(0), cb, metrics, hist, now)
                ELSE [x |-> x, cb |-> cb, metrics |-> metrics, hist |-> hist]
       IN  /\ ex' = [ex EXCEPT ![e] = r.x]
           /\ cb' = r.cb
           /\ metrics' = r.metrics
           /\ hist' = r.hist
    /\ UNCHANGED <<now, cbConfig, retryVars, runtimeConfig, isInitialized, started, observed, initCalls, emitted>>

\* a finished call leaves its slot to a later call
Release(e) ==
    /\ Finished(ex[e])
    /\ ex' = [ex EXCEPT ![e] = IdleExec]
    /\ UNCHANGED <<now, cbVars, retryVars, runtimeConfig, isInitialized, metrics, started, observed, initCalls, emitted>>

Next ==
    \/ Tick
    \/ \E e \in DOMAIN ex : Execute_call(e)
    \/ \E e \in DOMAIN ex : Initialize_resume(e)
    \/ \E e \in DOMAIN ex : Execute_begin(e)
    \/ \E e \in DOMAIN ex : Backend_settle(e)
    \/ \E e \in DOMAIN ex : Backend_hang(e)
    \/ \E e \in DOMAIN ex : Retry_wake(e)
    \/ \E e \in DOMAIN ex : Timer_fire(e)
    \/ \E e \in DOMAIN ex : Release(e)

Spec == Init /\ [][Next]_vars

\* The event loop never stops while there is something to run: a continuation
\* that is ready runs, a timer that is due fires, and otherwise the clock moves
\* on (up to MaxTime).
FairSpec == Spec /\ WF_vars(Next)

\* ------------------------------------------------------------ the runtime and initialize()
\* The runtime with initialize() also called directly, before, between and
\* after execute() calls, for the runtimes with one retry whose breaker opens
\* at the first failure.

InitLifecycle ==
    /\ Init
    /\ retryConfig.maxRetries = 1
    /\ (runtimeConfig.cbEnabled => cbConfig.failureThreshold = 1)

NextLifecycle ==
    \/ Next
    \/ \E e \in DOMAIN ex : Initialize_call(e)

SpecLifecycle == InitLifecycle /\ [][NextLifecycle]_vars

\* ------------------------------------------------------------ the runtime and health()
\* The runtime with health() called at any moment, for the runtimes with one
\* retry whose breaker opens at the first failure.

InitHealth ==
    /\ Init
    /\ retryConfig.maxRetries = 1
    /\ (runtimeConfig.cbEnabled => cbConfig.failureThreshold = 1)

\* health(); `of` keeps isInitialized and the number of execute() calls made
Health ==
    /\ LET r == health(isInitialized, cb, metrics, now)
       IN  /\ cb' = r.b
           /\ observed' = r.ret @@ [of |-> [isInitialized |-> isInitialized,
                                             started |-> started],
                                     resets |-> observed.resets]
    /\ UNCHANGED <<now, cbConfig, hist, retryVars, runtimeConfig, isInitialized,
                   metrics, started, ex, initCalls, emitted>>

NextHealth ==
    \/ Next
    \/ Health

SpecHealth == InitHealth /\ [][NextHealth]_vars

\* ------------------------------------------------------------ concurrent execute() calls
\* One runtime without retries whose breaker opens at the first failure and
\* closes at the first success, and up to MaxConcurrent execute() calls in progress at the same time; their
\* continuations interleave at the awaits.

InitConcurrent ==
    /\ now = 1
    /\ runtimeConfig = [DefaultRuntimeConfig EXCEPT !.cbEnabled = TRUE,
                                                    !.metricsEnabled = TRUE]
    /\ cbConfig = [failureThreshold |-> 1, successThreshold |-> 1,
                   timeout |-> MaxCbTimeout]
    /\ cb = NewCircuitBreaker
    /\ hist = NoHist
    /\ retryConfig = [maxRetries |-> 0, baseDelay |-> 1, maxDelay |-> 1, factor |-> 1]
    /\ retry = IdleRetry
    /\ isInitialized = FALSE
    /\ metrics = NewAgentMetrics
    /\ started = 0
    /\ ex = [e \in 1..MaxConcurrent |-> IdleExec]
    /\ observed = NoReport
    /\ initCalls = 0
    /\ emitted = <<>>

\* with maxRetries = 0 executeWithRetry never sleeps, so no attempt is woken
NextConcurrent ==
    \/ Tick
    \/ \E e \in DOMAIN ex : Execute_call(e)
    \/ \E e \in DOMAIN ex : Initialize_resume(e)
    \/ \E e \in DOMAIN ex : Execute_begin(e)
    \/ \E e \in DOMAIN ex : Backend_settle(e)
    \/ \E e \in DOMAIN ex : Backend_hang(e)
    \/ \E e \in DOMAIN ex : Timer_fire(e)
    \/ \E e \in DOMAIN ex : Release(e)

SpecConcurrent == InitConcurrent /\ [][NextConcurrent]_vars

\* ------------------------------------------------------------ stream()
\* stream() consumed by a `for await` loop: the consumer asks for the next
\* chunk as soon as it has the previous one, until the generator returns or
\* throws.

\* stream() is called, the consumer asks for the first chunk, and the
\* generator runs to the first await inside initialize()
Stream_call(e) ==
    /\ ex[e].pc = "idle"
    /\ \A d \in DOMAIN ex : d < e => ex[d].pc # "idle"
    /\ started + initCalls < MaxCalls
    /\ started' = started + 1
    /\ LET r == initialize_enter(isInitialized, metrics, emitted)
       IN  /\ isInitialized' = r.isInitialized
           /\ metrics' = r.metrics
           /\ emitted' = r.emitted
           /\ ex' = [ex EXCEPT ![e].call = "stream",
                               ![e].pc = IF r.to = "resolved" THEN "ready" ELSE r.to,
                               ![e].error = r.error]
    /\ UNCHANGED <<now, cbVars, retryVars, runtimeConfig, observed, initCalls>>

\* stream() resumes after `await this.initialize()` and yields its first chunk
Stream_begin(e) ==
    /\ ex[e].pc = "ready" /\ ex[e].call = "stream"
    /\ ex' = [ex EXCEPT ![e] = stream_begin(ex[e])]
    /\ UNCHANGED <<now, cbVars, retryVars, runtimeConfig, isInitialized, metrics, started, observed, initCalls, emitted>>

\* the consumer has taken the chunk and asks for the next one
Stream_next(e) ==
    /\ ex[e].pc = "yielded"
    /\ ex' = [ex EXCEPT ![e] = stream_next(ex[e], now)]
    /\ UNCHANGED <<now, cbVars, retryVars, runtimeConfig, isInitialized, metrics, started, observed, initCalls, emitted>>

\* `await this.sleep(100)` is over
Stream_wake(e) ==
    /\ ex[e].pc = "sleeping" /\ now >= ex[e].wake
    /\ ex' = [ex EXCEPT ![e] = stream_wake(ex[e])]
    /\ UNCHANGED <<now, cbVars, retryVars, runtimeConfig, isInitialized, metrics, started, observed, initCalls, emitted>>

NextStream ==
    \/ Tick
    \/ \E e \in DOMAIN ex : Stream_call(e)
    \/ \E e \in DOMAIN ex : Initialize_resume(e)
    \/ \E e \in DOMAIN ex : Stream_begin(e)
    \/ \E e \in DOMAIN ex : Stream_next(e)
    \/ \E e \in DOMAIN ex : Stream_wake(e)
    \/ \E e \in DOMAIN ex : Release(e)

SpecStream == Init /\ [][NextStream]_vars

\* ------------------------------------------------------------ properties of the breaker

\* C1: for every failureThreshold N, N recordFailure() calls in a row from a
\* closed breaker with failure counter 0 leave it open, and fewer than N leave
\* it closed (the counter then equals the number of calls).
C1_OpensAtThreshold ==
    /\ hist.run >= cbConfig.failureThreshold => cb.state = "open"
    /\ (hist.run >= 0 /\ hist.run < cbConfig.failureThreshold)
          => (cb.state = "closed" /\ cb.failures = hist.run)

C1_Witness ==
    /\ cbConfig.failureThreshold = MaxThreshold
    /\ hist.run = cbConfig.failureThreshold
    /\ hist.op = "recordFailure" /\ hist.pre = "closed"
    /\ cb.state = "open"

\* C2: from half-open, successThreshold recordSuccess() calls in a row close the
\* breaker and fewer leave it half-open; one recordFailure() while half-open
\* opens it at once and clears the success counter, whatever failureThreshold is.
C2_HalfOpenProbation ==
    /\ (hist.hoSucc >= 0 /\ hist.hoSucc < cbConfig.successThreshold)
          => (cb.state = "half-open" /\ cb.successes = hist.hoSucc)
    /\ hist.hoSucc = cbConfig.successThreshold
          => (cb.state = "closed" /\ cb.successes = 0)
    /\ (hist.op = "recordFailure" /\ hist.pre = "half-open")
          => (cb.state = "open" /\ cb.successes = 0
              /\ cb.nextAttemptTime = cb.lastFailureTime + cbConfig.timeout)

C2_Witness ==
    /\ cbConfig.successThreshold >= 2
    /\ hist.op = "recordFailure" /\ hist.pre = "half-open"
    /\ hist.preHo = cbConfig.successThreshold - 1
    /\ cb.failures < cbConfig.failureThreshold
    /\ cb.state = "open"

\* C3 (as claimed): while the breaker is open, having become open at time T,
\* getState() answers open before T + timeout and half-open from T + timeout on,
\* whatever recordSuccess()/recordFailure() calls were made since.
C3_OpenUntilDeadline ==
    (cb.state = "open" /\ hist.openedAt # Undefined)
        => getState(cb, now).ret =
              (IF now < hist.openedAt + cbConfig.timeout THEN "open" ELSE "half-open")

\* C4: recordSuccess() while closed clears the failure counter and leaves the
\* breaker closed: after failureThreshold-1 failures and one success, up to
\* failureThreshold-1 further failures leave it closed.
C4_SuccessResetsFailures ==
    /\ (hist.c4 >= 0 /\ hist.c4 < cbConfig.failureThreshold)
          => (cb.state = "closed" /\ cb.failures = hist.c4)
    /\ (hist.op = "recordSuccess" /\ hist.pre = "closed")
          => (cb.state = "closed" /\ cb.failures = 0)

C4_Witness ==
    /\ cbConfig.failureThreshold >= 2
    /\ hist.c4 = cbConfig.failureThreshold - 1
    /\ hist.op = "recordFailure"
    /\ cb.state = "closed"

\* ------------------------------------------------------------ properties of the retry wrappers

\* every attempt settled so far failed with a retryable error
AllRetryable(l) ==
    \A i \in 1..Len(l.outs) : l.outs[i] \in {"retryable", "agent_timeout"}

\* C7: with maxRetries = K and an operation that always fails with a retryable
\* error, withRetry and executeWithRetry invoke it exactly K + 1 times (they do
\* not stop earlier) and then raise the error of attempt K + 1.
C7_ExhaustsRetries ==
    (retry.pc # "idle" /\ AllRetryable(retry)) =>
        /\ retry.calls <= retryConfig.maxRetries + 1
        /\ retry.pc # "returned"
        /\ retry.pc = "thrown" <=> Len(retry.outs) = retryConfig.maxRetries + 1
        /\ retry.pc = "thrown" =>
              /\ retry.calls = retryConfig.maxRetries + 1
              /\ retry.lastError =
                    ErrorOf(retry.outs[Len(retry.outs)], retryConfig.maxRetries + 1)

C7_Witness ==
    /\ retry.fn = "withRetry" /\ retry.pc = "thrown"
    /\ retryConfig.maxRetries = MaxRetries
    /\ AllRetryable(retry)
    /\ retry.calls = MaxRetries + 1

\* C8 (as claimed): when the first attempt fails with a non-retryable error, the
\* wrapper has invoked the operation once, raises that error at once and
\* neither calls onRetry nor waits, for every maxRetries.
C8_FatalNotRetried ==
    (Len(retry.outs) >= 1 /\ retry.outs[1] = "fatal") =>
        /\ retry.pc = "thrown"
        /\ retry.calls = 1
        /\ retry.lastError = ErrorOf("fatal", 1)
        /\ retry.onRetry = <<>>

\* ------------------------------------------------------------ properties of execute

\* C5: when isOpen() answers true at the start of execute(), the call makes no
\* backend attempt, enters no retry loop, arms no timer, and returns status
\* failed with the non-retryable circuit-open error.
C5_OpenCircuitRejects ==
    \A e \in DOMAIN ex :
        ex[e].reportedOpen =>
            /\ ex[e].pc = "returned"
            /\ ex[e].status = "failed"
            /\ ex[e].error = AgentError("CIRCUIT_OPEN", FALSE, 0)
            /\ ~ex[e].error.retryable
            /\ ex[e].loop = IdleRetry
            /\ ex[e].timer = "none"

C5_Witness ==
    \E e \in DOMAIN ex :
        /\ ex[e].reportedOpen /\ ex[e].pc = "returned"
        /\ cb.state = "open"

\* C6 (as claimed, its first two parts): an execute() that finds the circuit
\* open, the circuit having opened at time T, is rejected without a backend
\* attempt when it starts before T + timeout, and is admitted and attempted
\* when it starts at T + timeout or later.
C6_AdmittedAfterTimeout ==
    \A e \in DOMAIN ex :
        (ex[e].pc \in {"racing", "returned"} /\ ex[e].gate.state = "open") =>
            IF ex[e].startTime >= ex[e].gate.openedAt + cbConfig.timeout
            THEN ~ex[e].reportedOpen /\ ex[e].loop.calls >= 1
            ELSE ex[e].reportedOpen /\ ex[e].loop.calls = 0

\* what holds of a call one of whose backend attempts never settles: it is not
\* still waiting after its deadline, and once returned it is a timeout recorded
\* once
hungCallInv ==
    \A e \in DOMAIN ex :
        ex[e].loop.pc = "hung" =>
            /\ ex[e].pc \in {"racing", "returned"}
            /\ ex[e].deadline = ex[e].startTime + ex[e].timeout
            /\ ex[e].pc = "racing" => (now <= ex[e].deadline /\ ex[e].timer = "armed")
            /\ ex[e].pc = "returned" =>
                  /\ ex[e].status = "timeout"
                  /\ ex[e].returnedAt = ex[e].deadline
                  /\ ex[e].duration = ex[e].timeout
                  /\ IF runtimeConfig.metricsEnabled
                     THEN /\ ex[e].recorded = 1
                          /\ ex[e].delta = [executions |-> 1, successes |-> 0,
                                            failures |-> 1, timeouts |-> 1]
                     ELSE ex[e].recorded = 0 /\ ex[e].delta = ZeroDelta

\* C9: when an attempt of the backend never settles, execute() does return,
\* at its deadline (start + effective timeout) and not later, with status
\* timeout, whatever the retry configuration; with metrics enabled one record
\* is made: executions, failures and timeouts + 1 each, successes + 0 (none
\* with metrics disabled).
C9_HungBackendTimesOut ==
    /\ []hungCallInv
    /\ \A e \in Execs :
          (ex[e].loop.pc = "hung" /\ ex[e].pc = "racing")
              ~> (ex[e].pc = "returned" /\ ex[e].status = "timeout")

C9_Witness ==
    \E e \in DOMAIN ex :
        /\ ex[e].loop.pc = "hung" /\ ex[e].loop.calls = 1
        /\ ex[e].pc = "returned"
        /\ runtimeConfig.metricsEnabled
        /\ retryConfig.maxRetries = MaxRetries
        /\ metrics.timeouts >= 1

\* C10: once initialize() has succeeded no execute() raises; a call that has
\* returned has status completed, failed or timeout, its duration is the time
\* from its start to its return, and its error is set exactly when the status
\* is not completed.
C10_AlwaysAResult ==
    \A e \in DOMAIN ex :
        /\ ex[e].pc = "raised" => ~isInitialized
        /\ ex[e].pc = "returned" =>
              /\ ex[e].status \in {"completed", "failed", "timeout"}
              /\ ex[e].duration = ex[e].returnedAt - ex[e].startTime
              /\ ex[e].error # NoError <=> ex[e].status # "completed"

C10_Witness ==
    \E e \in DOMAIN ex :
        /\ ex[e].pc = "returned" /\ ex[e].status = "failed"
        /\ ex[e].loop.calls = MaxRetries + 1
        /\ ex[e].duration > 0
        /\ isInitialized

\* C11: with the breaker enabled, a returned execute() has made exactly one
\* bookkeeping call on the breaker: recordSuccess() once and recordFailure()
\* never when its status is completed, recordFailure() once and
\* recordSuccess() never when it is failed or timeout, and that one
\* recordFailure() raised the failure counter by 1 however many attempts the
\* retry loop made; a call that has not returned has made none.
C11_OneBreakerCall ==
    \A e \in DOMAIN ex :
        IF runtimeConfig.cbEnabled /\ ex[e].pc = "returned"
        THEN /\ ex[e].status = "completed" =>
                    ex[e].cbCalls = [recordSuccess |-> 1, recordFailure |-> 0]
             /\ ex[e].status \in {"failed", "timeout"} =>
                    /\ ex[e].cbCalls = [recordSuccess |-> 0, recordFailure |-> 1]
                    /\ ex[e].failuresBy = 1
        ELSE ex[e].cbCalls = NoCbCalls

C11_Witness ==
    \E e \in DOMAIN ex :
        /\ runtimeConfig.cbEnabled
        /\ ex[e].pc = "returned" /\ ex[e].status = "failed"
        /\ ex[e].loop.calls = MaxRetries + 1 /\ MaxRetries >= 1
        /\ ex[e].cbCalls.recordFailure = 1
        /\ cb.failures = 1

\* the execute() calls made that have not returned or raised yet
InProgress == {e \in DOMAIN ex : ex[e].pc \in {"init_wait", "ready", "racing"}}

\* how one recordExecution of a result with the given status changes the counters
DeltaOf(status) ==
    [executions |-> 1,
     successes |-> IF status = "completed" THEN 1 ELSE 0,
     failures |-> IF status \in {"failed", "timeout"} THEN 1 ELSE 0,
     timeouts |-> IF status = "timeout" THEN 1 ELSE 0]

\* C12: with metrics enabled every execute() makes exactly one
\* recordExecution, on every exit path (completed, backend error, open
\* circuit, timeout): none before its status is final, one by the time it has
\* returned, for the status it returns; so the executions counter is the
\* number of calls that have returned.  With metrics disabled no call records
\* and no counter moves.
C12_OneMetricsRecord ==
    /\ \A e \in DOMAIN ex :
          IF runtimeConfig.metricsEnabled /\ ex[e].pc = "returned"
          THEN /\ ex[e].recorded = 1
               /\ ex[e].recordedStatus = ex[e].status
               /\ ex[e].status \in {"completed", "failed", "timeout"}
               /\ ex[e].delta = DeltaOf(ex[e].status)
          ELSE ex[e].recorded = 0 /\ ex[e].delta = ZeroDelta
    /\ runtimeConfig.metricsEnabled /\ validConfig(runtimeConfig) =>
          metrics.executions = started - Cardinality(InProgress)
    /\ ~runtimeConfig.metricsEnabled => metrics = NewAgentMetrics

C12_Witness ==
    /\ runtimeConfig.metricsEnabled
    /\ metrics.executions = 3 /\ metrics.successes = 1
    /\ metrics.timeouts = 1 /\ metrics.failures = 2
    /\ \E e \in DOMAIN ex : ex[e].pc = "returned" /\ ex[e].reportedOpen

\* C13 (as claimed): a returned execute() has status timeout exactly when its
\* timeout fired before executeWithRetry settled; when the circuit was open,
\* or executeWithRetry threw first (a non-retryable error, or a retryable
\* error of any kind with the retries exhausted), the status is failed; when
\* executeWithRetry returned first it is completed.
C13_TimeoutOnlyByDeadline ==
    \A e \in DOMAIN ex :
        ex[e].pc = "returned" =>
            /\ ex[e].status = "timeout" <=> ex[e].endedBy = "timer"
            /\ ex[e].endedBy = "open" => ex[e].status = "failed"
            /\ (ex[e].endedBy = "loop" /\ ex[e].loop.pc = "thrown") =>
                    ex[e].status = "failed"
            /\ (ex[e].endedBy = "loop" /\ ex[e].loop.pc = "returned") =>
                    ex[e].status = "completed"

\* C14: every delay the backoff computes is at most maxDelay (and not
\* negative), for every attempt and every configuration, baseDelay > maxDelay
\* included: so is every delay handed to the onRetry callback, and every sleep.
C14_DelayAtMostMax ==
    /\ \A i \in DOMAIN retry.onRetry :
          /\ retry.onRetry[i].delay <= retryConfig.maxDelay
          /\ retry.onRetry[i].delay >= 0
          /\ retry.onRetry[i].attempt = i
    /\ retry.pc = "sleeping" => retry.wake <= now + retryConfig.maxDelay

C14_Witness ==
    /\ retryConfig.baseDelay < retryConfig.maxDelay
    /\ Len(retry.onRetry) >= 2
    /\ retry.onRetry[1].delay > retryConfig.baseDelay
    /\ retry.onRetry[1].delay < retryConfig.maxDelay
    /\ retry.onRetry[2].delay = retryConfig.maxDelay

\* C15: getMetrics() on zero recorded executions, initially and after
\* reset(), reports successRate 0 and averageDuration 0 (not NaN); otherwise
\* successRate = successes / executions * 100 and averageDuration =
\* totalDuration / executions.
C15_RatesDefined ==
    observed.kind = "metrics" =>
        /\ observed.executions = observed.of.executions
        /\ observed.successRate # NaN /\ observed.averageDuration # NaN
        /\ IF observed.of.executions = 0
           THEN observed.successRate = Number(0) /\ observed.averageDuration = Number(0)
           ELSE /\ observed.successRate[2] > 0 /\ observed.averageDuration[2] > 0
                /\ observed.successRate[1] * observed.of.executions
                      = observed.of.successes * 100 * observed.successRate[2]
                /\ observed.averageDuration[1] * observed.of.executions
                      = observed.of.totalDuration * observed.averageDuration[2]

\* getMetrics() right after a reset()
C15_Witness ==
    /\ observed.kind = "metrics" /\ observed.resets = 1
    /\ observed.of = metrics
    /\ metrics.executions = 0
    /\ observed.successRate = Number(0)

C17_DegradedBeforeInit ==
    (observed.kind = "health" /\ ~observed.of.isInitialized /\ observed.of.started = 0) =>
        /\ observed.status = "degraded"
        /\ observed.checks.initialized = "fail"

\* C18 (as claimed): with temperature, maxTokens or maxIterations out of range
\* every initialize(), direct or at the start of execute(), raises a
\* non-retryable AgentError to its caller and the runtime stays uninitialized:
\* nothing is executed, the breaker is not called and no metrics record is
\* made; with all three in range no call raises.
C18_InvalidConfigRaises ==
    IF validConfig(runtimeConfig)
    THEN \A e \in DOMAIN ex : ex[e].pc # "raised"
    ELSE /\ ~isInitialized
         /\ cb = NewCircuitBreaker
         /\ metrics = NewAgentMetrics
         /\ \A e \in DOMAIN ex :
               /\ ex[e].pc \in {"idle", "raised"}
               /\ ex[e].pc = "raised" =>
                     /\ IsAgentError(ex[e].error)
                     /\ ~ex[e].error.retryable

\* C19: once initialize() has succeeded (isInitialized is set) it stays set,
\* and every initialize() called from then on, directly or at the start of
\* execute(), is a no-op: it changes neither isInitialized nor the metrics
\* nor the breaker, does not validate again (it cannot raise), awaits nothing
\* and emits no lifecycle event.
C19_InitializeIdempotent ==
    /\ [][isInitialized => isInitialized']_vars
    /\ [][(isInitialized /\ (started' # started \/ initCalls' # initCalls)) =>
             /\ emitted' = emitted
             /\ metrics' = metrics
             /\ cb' = cb
             /\ \A e \in DOMAIN ex :
                   ex'[e] # ex[e] => /\ ex'[e].pc \in {"ready", "resolved"}
                                     /\ ex'[e].error = NoError]_vars

C19_Witness ==
    /\ isInitialized /\ initCalls = 2 /\ started >= 1
    /\ \E e \in DOMAIN ex : ex[e].call = "initialize" /\ ex[e].pc = "resolved"
    /\ emitted = <<"initializing", "initialized">>

\* the result of a call and the bookkeeping made for it
Outcome(x) ==
    [status |-> x.status, output |-> x.output, usage |-> x.usage,
     duration |-> x.duration, error |-> x.error,
     recorded |-> x.recorded, cbCalls |-> x.cbCalls]

\* C20: once execute() has returned, nothing changes its result or adds to
\* its metrics record or breaker call; in particular when the abandoned
\* backend attempt of a timed-out call settles late (with a success or a
\* failure), that step changes neither the metrics nor the breaker.  A
\* returned call has made at most one metrics record and one breaker call.
C20_LateOutcomeDiscarded ==
    /\ [][\A e \in DOMAIN ex :
             (ex[e].pc = "returned" /\ ex'[e].pc = "returned") =>
                 Outcome(ex'[e]) = Outcome(ex[e])]_vars
    /\ [][\A e \in DOMAIN ex :
             (ex[e].pc = "returned" /\ ex[e].loop.pc = "calling"
                 /\ ex'[e].loop.pc # "calling") =>
                 (metrics' = metrics /\ cb' = cb)]_vars
    /\ [](\A e \in DOMAIN ex :
             ex[e].pc = "returned" =>
                 /\ ex[e].recorded = IF runtimeConfig.metricsEnabled THEN 1 ELSE 0
                 /\ ex[e].cbCalls.recordSuccess + ex[e].cbCalls.recordFailure
                       = IF runtimeConfig.cbEnabled THEN 1 ELSE 0)

\* a timed-out call whose abandoned backend attempt has succeeded since
C20_Witness ==
    \E e \in DOMAIN ex :
        /\ ex[e].pc = "returned" /\ ex[e].status = "timeout"
        /\ ex[e].endedBy = "timer"
        /\ ex[e].loop.pc = "returned"
        /\ runtimeConfig.metricsEnabled /\ runtimeConfig.cbEnabled
        /\ metrics.successes = 0 /\ metrics.timeouts = 1
        /\ cb.failures = 1

\* ------------------------------------------------------------ more properties of the breaker

\* C22 (as claimed): recordSuccess() on an open breaker changes nothing:
\* state, failure counter, success counter and deadline stay as they were.
C22_SuccessWhileOpenNoEffect ==
    [][(hist'.op = "recordSuccess" /\ cb.state = "open") => cb' = cb]_vars

\* C23: isOpen() and getState() leave the breaker in the same state (both take
\* open to half-open and clear the deadline once it is reached), isOpen()
\* answers true exactly when getState() answers open, so false for closed and
\* half-open; and a step from open to half-open is a step of isOpen(),
\* getState() or getStats().
C23_SameLazyTransition ==
    /\ [](/\ isOpen(cb, now).b = getState(cb, now).b
          /\ isOpen(cb, now).ret <=> getState(cb, now).ret = "open"
          /\ getState(cb, now).ret = getState(cb, now).b.state
          /\ isOpen(cb, now).b.state \in {"closed", "half-open"} => ~isOpen(cb, now).ret)
    /\ [][(cb.state = "open" /\ cb'.state = "half-open") =>
             /\ hist'.op \in {"isOpen", "getState", "getStats"}
             /\ cb.nextAttemptTime # Undefined /\ now >= cb.nextAttemptTime
             /\ cb'.nextAttemptTime = Undefined]_vars

C23_Witness ==
    /\ hist.op = "isOpen" /\ hist.pre = "open"
    /\ cb.state = "half-open"
    /\ ~isOpen(cb, now).ret

\* recordFailure() k times in a row at time t
RECURSIVE Failures(_, _, _, _)
Failures(b, cfg, t, k) ==
    IF k = 0 THEN b ELSE Failures(recordFailure(b, cfg, t), cfg, t, k - 1)

\* C24: reset() leaves the breaker exactly as new (closed, both counters 0, no
\* last-failure time, no deadline), whatever state it was in; from there k
\* failures open it exactly when k >= failureThreshold.
C24_ResetIsInitial ==
    /\ reset(cb) = NewCircuitBreaker
    /\ hist.op = "reset" => cb = NewCircuitBreaker
    /\ \A k \in 0..MaxThreshold :
          Failures(reset(cb), cbConfig, now, k).state
              = IF k >= cbConfig.failureThreshold THEN "open" ELSE "closed"

C24_Witness ==
    /\ hist.op = "reset" /\ hist.pre = "half-open"
    /\ cb = NewCircuitBreaker
    /\ now > 1

\* C30: the deadline (nextAttemptTime) is set exactly when the breaker is open.
C30_DeadlineIffOpen ==
    cb.nextAttemptTime # Undefined <=> cb.state = "open"

C30_Witness ==
    /\ hist.op = "getState" /\ hist.pre = "open"
    /\ cb.state = "half-open" /\ cb.nextAttemptTime = Undefined

\* ------------------------------------------------------------ more properties of withRetry

\* the attempts of the loop that have failed so far
FailedAttempts(l) == {i \in 1..Len(l.outs) : l.outs[i] # "ok"}

\* C25: withRetry calls onRetry once per retry and only for retries: after f
\* failed attempts it has been called min(f, maxRetries) times, the i-th call
\* with attempt number i, the error of the i-th attempt and the delay that is
\* then waited; the call is made before the wait and the next attempt, and
\* none is made after the last allowed attempt.
C25_OnRetryPerRetry ==
    retry.fn = "withRetry" =>
        /\ Len(retry.onRetry)
               = Min(Cardinality(FailedAttempts(retry)), retryConfig.maxRetries)
        /\ \A i \in 1..Len(retry.onRetry) :
              /\ retry.onRetry[i].attempt = i
              /\ retry.outs[i] # "ok"
              /\ retry.onRetry[i].error = ErrorOf(retry.outs[i], i)
        /\ retry.pc = "sleeping" =>
              /\ Len(retry.onRetry) = retry.calls
              /\ retry.onRetry[retry.calls].error = retry.lastError
        /\ retry.pc = "calling" => Len(retry.onRetry) = retry.calls - 1
        /\ retry.pc = "thrown" =>
              /\ retry.calls = retryConfig.maxRetries + 1
              /\ Len(retry.onRetry) = retry.calls - 1

C25_Witness ==
    /\ retry.fn = "withRetry" /\ retry.pc = "thrown"
    /\ retryConfig.maxRetries = 2
    /\ Len(retry.onRetry) = 2 /\ Len(retry.outs) = 3

\* C26: withRetry stops at the first success: it makes no attempt after a
\* successful one, returns that attempt's value after exactly f + 1
\* invocations when the first f attempts failed (f = 0: one invocation, no
\* callback, no wait), and never invokes the operation more than
\* maxRetries + 1 times.
C26_StopsAtFirstSuccess ==
    retry.fn = "withRetry" =>
        /\ retry.calls <= retryConfig.maxRetries + 1
        /\ \A i \in 1..Len(retry.outs) :
              retry.outs[i] = "ok" =>
                  /\ i = Len(retry.outs) /\ i = retry.calls
                  /\ retry.pc = "returned" /\ retry.value = i
        /\ retry.pc = "returned" =>
              /\ retry.calls = Len(retry.outs)
              /\ retry.outs[retry.calls] = "ok"
              /\ Cardinality(FailedAttempts(retry)) = retry.calls - 1
              /\ Len(retry.onRetry) = retry.calls - 1
              /\ retry.calls = 1 => (retry.onRetry = <<>> /\ retry.wake = 0)

C26_Witness ==
    /\ retry.fn = "withRetry" /\ retry.pc = "returned"
    /\ retry.outs = <<"retryable", "retryable", "ok">>
    /\ retry.calls = 3 /\ retry.value = 3

\* ------------------------------------------------------------ more properties of execute()

\* C27: a timeout result counts as a failure and as a timeout, so at every
\* moment timeouts <= failures and successes + failures = executions; with
\* metrics enabled executions is the number of execute() calls that have
\* returned, and a returned timeout has added one to failures and to timeouts.
C27_CountersConsistent ==
    /\ metrics.timeouts <= metrics.failures
    /\ metrics.successes + metrics.failures = metrics.executions
    /\ runtimeConfig.metricsEnabled /\ validConfig(runtimeConfig) =>
          metrics.successes + metrics.failures = started - Cardinality(InProgress)
    /\ \A e \in DOMAIN ex :
          (runtimeConfig.metricsEnabled /\ ex[e].pc = "returned"
             /\ ex[e].status = "timeout") =>
                 ex[e].delta.failures = 1 /\ ex[e].delta.timeouts = 1

C27_Witness ==
    /\ runtimeConfig.metricsEnabled
    /\ metrics.executions = 3 /\ metrics.successes = 2
    /\ metrics.timeouts = 1 /\ metrics.failures = 1
    /\ InProgress = {}

\* C28: execute() never returns a half-populated result: a completed result
\* has the output, tool calls and usage of the one attempt that resolved, the
\* last one made (the usage of one attempt, not a sum over the attempts); a
\* failed or timeout result has empty output, no tool calls and usage all
\* zero, and an error; in both cases the transcript is the system message
\* followed by the user task.
C28_ResultWhole ==
    \A e \in DOMAIN ex :
        ex[e].pc = "returned" =>
            /\ ex[e].messages = Transcript
            /\ IF ex[e].status = "completed"
               THEN /\ ex[e].loop.pc = "returned"
                    /\ ex[e].output = ex[e].loop.value
                    /\ ex[e].loop.outs[ex[e].output] = "ok"
                    /\ \A i \in 1..(ex[e].output - 1) : ex[e].loop.outs[i] # "ok"
                    /\ ex[e].toolCalls = <<>>
                    /\ ex[e].usage = CoreUsage
                    /\ ex[e].usage.totalTokens
                           = ex[e].usage.promptTokens + ex[e].usage.completionTokens
                    /\ ex[e].error = NoError
               ELSE /\ ex[e].status \in {"failed", "timeout"}
                    /\ ex[e].output = 0
                    /\ ex[e].toolCalls = <<>>
                    /\ ex[e].usage = ZeroUsage
                    /\ ex[e].error # NoError

C28_Witness ==
    \E e \in DOMAIN ex :
        /\ ex[e].pc = "returned" /\ ex[e].status = "completed"
        /\ ex[e].loop.calls = 2 /\ ex[e].output = 2
        /\ ex[e].usage = CoreUsage /\ ex[e].messages = Transcript

\* ------------------------------------------------------------ concurrent calls and the breaker

\* the calls admitted by the gate after the breaker last opened (by the lazy
\* transition to half-open or while half-open) whose attempt is in flight
Trials ==
    {e \in DOMAIN ex : /\ ex[e].pc = "racing"
                       /\ ex[e].gate.state \in {"open", "half-open"}
                       /\ ex[e].gate.openedAt = hist.openedAt}

\* C29 (as claimed): while the breaker is half-open, at most successThreshold
\* execute() calls admitted in this half-open period are in flight.
C29_HalfOpenTrialsBounded ==
    cb.state = "half-open" => Cardinality(Trials) <= cbConfig.successThreshold

\* ------------------------------------------------------------ properties of stream()

\* the chunks are content chunks, followed by at most one done or error chunk
WellFormed(chunks) ==
    \A i \in 1..Len(chunks) :
        IF chunks[i].type = "content" THEN TRUE
        ELSE chunks[i].type \in {"done", "error"} /\ i = Len(chunks)

\* C21 (as claimed): stream() hands its consumer content chunks and then
\* exactly one terminal chunk (done with usage, or error), nothing after it,
\* and no failure, that of initialization included, is raised into the
\* consumer: the generator never throws.
C21_StreamEndsWithTerminalChunk ==
    \A e \in DOMAIN ex :
        ex[e].call = "stream" =>
            /\ WellFormed(ex[e].chunks)
            /\ ex[e].pc # "raised"
            /\ ex[e].pc = "returned" =>
                  /\ ex[e].chunks # <<>>
                  /\ ex[e].chunks[Len(ex[e].chunks)].type \in {"done", "error"}

\* ------------------------------------------------------------ the breaker's counters

\* C31: after every sequence of recordSuccess, recordFailure, isOpen,
\* getState, getStats and reset calls the success counter is 0 unless the
\* state is half-open and is below successThreshold, and the failure counter
\* is below failureThreshold while the state is closed.
C31_CountersInRange ==
    /\ cb.state # "half-open" => cb.successes = 0
    /\ cb.successes >= 0 /\ cb.successes < cbConfig.successThreshold
    /\ cb.state = "closed" =>
          (cb.failures >= 0 /\ cb.failures < cbConfig.failureThreshold)

C31_Witness ==
    /\ hist.op = "recordSuccess" /\ hist.pre = "half-open"
    /\ cb.state = "half-open" /\ cb.successes = 1
    /\ cbConfig.successThreshold = 2

\* ------------------------------------------------------------ rejected calls and the deadline

\* C32 (as claimed): an execute() rejected because the circuit is open leaves
\* the breaker's deadline where it was, so that calls made while the circuit
\* is open, however often, cannot keep it from reaching half-open.
C32_RejectionKeepsDeadline ==
    [][\A e \in DOMAIN ex :
          (ex[e].pc = "ready" /\ ex'[e].pc = "returned" /\ ex'[e].reportedOpen)
              => cb'.nextAttemptTime = cb.nextAttemptTime]_vars

\* ------------------------------------------------------------ the abandoned retry loop

\* C33 (as claimed): once execute() has returned with status timeout, the
\* executeWithRetry loop it abandoned makes no further attempt of the backend.
C33_NoAttemptAfterTimeout ==
    [][\A e \in DOMAIN ex :
          (ex[e].pc = "returned" /\ ex[e].status = "timeout")
              => ex'[e].loop.calls <= ex[e].loop.calls]_vars

\* ------------------------------------------------------------ concurrent initialization

\* how many times event was emitted
Emitted(event) == Cardinality({i \in DOMAIN emitted : emitted[i] = event})

\* C34 (as claimed): with execute() calls started concurrently on a runtime
\* that is not initialized, initialization happens once: 'initializing' (with
\* the validation and the metrics initialization that follow it) and
\* 'initialized' are each emitted at most once, and a call goes on to its
\* gate only when isInitialized is set.
C34_InitializedOnce ==
    /\ Emitted("initializing") <= 1
    /\ Emitted("initialized") <= 1
    /\ \A e \in DOMAIN ex :
          ex[e].pc \in {"ready", "racing", "returned"} => isInitialized

\* ------------------------------------------------------------ outcomes of earlier calls

\* C35 (as claimed): an execute() admitted while the breaker was closed whose
\* outcome arrives while the breaker is half-open leaves the half-open
\* breaker as it is: it neither adds to the success counter (or closes the
\* breaker) nor reopens it.
C35_OnlyTrialsDecide ==
    [][\A e \in DOMAIN ex :
          (/\ ex[e].pc = "racing" /\ ex'[e].pc = "returned"
           /\ ex[e].gate.state = "closed"
           /\ cb.state = "half-open")
              => (cb'.state = "half-open" /\ cb'.successes = cb.successes)]_vars

\* ------------------------------------------------------------ observers of the breaker

\* breaker b2 is b as an observer at time t may leave it: unchanged, or, when
\* b is open and its deadline is reached, half-open with the deadline cleared
Observed(b, b2, t) ==
    \/ b2 = b
    \/ /\ b.state = "open"
       /\ b.nextAttemptTime # Undefined /\ t >= b.nextAttemptTime
       /\ b2 = [b EXCEPT !.state = "half-open", !.nextAttemptTime = Undefined]

\* C36: health() and getStats() only observe: in every state of the runtime,
\* at every clock value, they leave the breaker's failure counter, success
\* counter and last-failure time as they are and change its state only by the
\* lazy transition from open to half-open at or after the deadline, and a
\* health() call changes no metrics counter.
C36_ObserversOnly ==
    /\ [](/\ Observed(cb, health(isInitialized, cb, metrics, now).b, now)
          /\ Observed(cb, getStats(cb, now).b, now)
          /\ getStats(cb, now).ret.failures = cb.failures
          /\ getStats(cb, now).ret.successes = cb.successes
          /\ getStats(cb, now).ret.lastFailureTime = cb.lastFailureTime)
    /\ [][observed' # observed =>
             /\ Observed(cb, cb', now)
             /\ metrics' = metrics]_vars

C36_Witness ==
    /\ observed.kind = "health" /\ observed.state = "half-open"
    /\ started = 1
    /\ cb.state = "half-open" /\ cb.failures = 1
    /\ cb.lastFailureTime # Undefined /\ cb.nextAttemptTime = Undefined
    /\ metrics.executions = 1

\* ------------------------------------------------------------ the timer of a settled call

\* C37: the timeout timer of an execute() that returned because its backend
\* call settled first stays armed, and when it fires it changes nothing but
\* itself: the returned result (status included), the metrics and the breaker
\* are as before, whatever the other calls in progress; such a call has made
\* one metrics record and one call of the breaker in all.
C37_LateTimerNoEffect ==
    /\ [](\A e \in DOMAIN ex :
             (ex[e].pc = "returned" /\ ex[e].endedBy = "loop") =>
                 /\ ex[e].timer \in {"armed", "fired"}
                 /\ ex[e].recorded = IF runtimeConfig.metricsEnabled THEN 1 ELSE 0
                 /\ runtimeConfig.metricsEnabled => ex[e].recordedStatus = ex[e].status
                 /\ ex[e].cbCalls.recordSuccess + ex[e].cbCalls.recordFailure
                        = IF runtimeConfig.cbEnabled THEN 1 ELSE 0
                 /\ ex[e].status = "completed" => ex[e].cbCalls.recordFailure = 0)
    /\ [][\A e \in DOMAIN ex :
             (ex[e].pc = "returned" /\ ex[e].timer = "armed" /\ ex'[e].timer # "armed")
                 => /\ ex'[e] = [ex[e] EXCEPT !.timer = "fired"]
                    /\ cb' = cb /\ metrics' = metrics /\ hist' = hist]_vars

C37_Witness ==
    \E e \in DOMAIN ex :
        /\ ex[e].pc = "returned" /\ ex[e].endedBy = "loop"
        /\ ex[e].status = "completed" /\ ex[e].timer = "fired"
        /\ now >= ex[e].deadline /\ ex[e].returnedAt < ex[e].deadline
        /\ \E d \in DOMAIN ex : d # e /\ ex[d].pc = "racing"

====
